---- MODULE Spec2Model ----
(***************************************************************************)
(* fsq enqueue protocol: the link-based venqueue and the vreenqueue of      *)
(* fsq/enqueue.py and the rename-based venqueue of lib/fsq/enqueue.py, run  *)
(* by concurrent calls of one process (threads sharing pid, hostname and    *)
(* the module globals) against the staging (tmp) and live (queue)           *)
(* directories of the queues.  Every operating system call of the code     *)
(* either succeeds or fails.                                                *)
(***************************************************************************)
EXTENDS Naturals, Sequences, FiniteSets, TLC

\* ---- bounds of the model ----
NumCalls == 2        \* venqueue calls (each may overlap any other)
MaxLen == 2          \* longest payload, in bytes
MaxTick == 1         \* the formatted clock takes the values 0..MaxTick
ReadSize == 1        \* bytes one os.read may return (2048 in the source)

Calls == 1..NumCalls
\* one more call, which only the three-call scenario SpecRename3 starts
AllCalls == 1..(NumCalls + 1)

\* ---- values ----
None == "None"
NoName == <<>>                               \* None, where a file name may stand
NL == "nl"                                   \* the newline byte
Stream == <<"a", NL, "b", NL, "c", NL, "d", NL>>
Take(s, n) == SubSeq(s, 1, n)
Drop(s, n) == SubSeq(s, n + 1, Len(s))
Min(a, b) == IF a < b THEN a ELSE b

Pid == "pid"                                 \* os.getpid(), one process
Host == "host"                               \* socket.gethostname()
Args == <<"arg">>                            \* the caller's argument list
TrgQueue == "A"                              \* trg_queue
KwEntropy == {<<>>, <<1>>}                   \* std_kwargs: without or with entropy=1
EnqueueTries == {0, 1}                       \* values of FSQ_ENQUEUE_TRIES
SrcQueue == "S"                              \* vreenqueue's src_queue
ItemId == "id"                               \* vreenqueue's item_id
TrgQueues == {<<"A">>, <<"A", "B">>}         \* vreenqueue's args

\* exceptions: OSError stands for OSError and IOError, which every handler
\* of the two modules treats alike
NoExc == [cls |-> None, errno |-> None]
Exc(c, e) == [cls |-> c, errno |-> e]
IsOSError(e) == e.cls = "OSError"

VARIABLES
    variant,         \* what the calls run: venqueue of fsq/enqueue.py ("link"), venqueue of
                     \* lib/fsq/enqueue.py ("rename") or vreenqueue ("reenqueue")
    enqueue_tries,   \* FSQ_ENQUEUE_TRIES, the default _mkitem runs with
    venqueue_tries,  \* the enqueue_tries the callers hand to venqueue
    clock,           \* the formatted datetime.datetime.now()
    _ENTROPY_PID, _ENTROPY_TIME, _ENTROPY_HOST, _ENTROPY,
    tmp,             \* staging directory: <<queue, name>> -> inode
    queue,           \* live directory: <<queue, name>> -> inode
    data,            \* inode -> bytes the file holds (what a reader gets)
    synced,          \* inodes whose current bytes were forced to disk by fsync
    pc,              \* position of each call
    now, entropy,    \* locals of venqueue / _mkitem
    payload,         \* bytes the source stream has delivered to the call
    eos,             \* calls whose source stream reached its end
    real_file,       \* hasattr(src_file, 'fileno')
    buf,             \* userspace buffer of trg_file (line buffered)
    item_name,       \* item_name (link) / basename of name (rename)
    commit_name,     \* basename of commit_name (rename)
    tried,           \* _mkitem's tried
    kw_entropy,      \* <<std_kwargs['entropy']>>, or <<>> without that key
    exc,             \* exception in flight or raised to the caller
    retval,          \* value returned to the caller
    published,       \* calls whose publish step (os.link / os.rename) completed
    link,            \* vreenqueue's link
    trg_queues,      \* vreenqueue's args, the target queues
    idx,             \* position of vreenqueue's current for loop in args
    trg_fd,          \* the file vreenqueue's trg_fd was opened on, <<>> while unbound
    created,         \* names each vreenqueue call has created so far
    staged           \* target queues each vreenqueue call has staged the item for

vars == <<variant, enqueue_tries, venqueue_tries, clock,
          _ENTROPY_PID, _ENTROPY_TIME, _ENTROPY_HOST, _ENTROPY,
          tmp, queue, data, synced, pc, now, entropy, payload, eos, real_file,
          buf, item_name, commit_name, tried, kw_entropy, exc, retval,
          published, link, trg_queues, idx, trg_fd, created, staged>>

reenq == <<link, trg_queues, idx, trg_fd, created, staged>>
config == <<variant, enqueue_tries, venqueue_tries, reenq>>
globals == <<_ENTROPY_PID, _ENTROPY_TIME, _ENTROPY_HOST, _ENTROPY>>
fs == <<tmp, queue, data, synced>>
source == <<payload, eos, real_file>>
names == <<item_name, commit_name>>
mkitem == <<tried, kw_entropy>>

Terminal == {"returned", "raised"}

\* ---- the filesystem ----
Empty == [x \in {} |-> None]
Exists(dir, path) == path \in DOMAIN dir
Remove(dir, path) == [x \in DOMAIN dir \ {path} |-> dir[x]]
Put(dir, path, ino) == (path :> ino) @@ dir
Range(f) == { f[x] : x \in DOMAIN f }

\* inodes are named after the call that created them and the directory it
\* created them in
TmpIno(p) == <<p, "tmp">>
QueueIno(p) == <<p, "queue">>
Creator(ino) == ino[1]

\* a file's storage lasts while it has a name or its creator holds it open
Kept(d, t, q, c) ==
    [i \in { j \in DOMAIN d : j \in Range(t) \cup Range(q) \/ c[Creator(j)] \notin Terminal }
       |-> d[i]]
Store(d, s) ==
    /\ data' = Kept(d, tmp', queue', pc')
    /\ synced' = s \cap DOMAIN data'

\* construct(): one file name per field list
construct(fields) == fields

\* os.path.join(fsq_path.tmp(trg_queue), name), fsq_path.item(trg_queue, name)
Path(q, name) == <<q, name>>

\* file.write() on a line-buffered file object (os.fdopen(fd, 'wb', 1)):
\* everything up to the last newline written goes to the file, the rest
\* stays in the userspace buffer
LastNL(s) == IF \E i \in 1..Len(s) : s[i] = NL
             THEN CHOOSE i \in 1..Len(s) :
                     s[i] = NL /\ \A j \in (i + 1)..Len(s) : s[j] # NL
             ELSE 0
Written(d, b, ino) == IF ino \in DOMAIN d THEN [d EXCEPT ![ino] = @ \o b] ELSE d
WriteFile(p, ino, msg) ==
    LET b == buf[p] \o msg
        k == LastNL(b)
    IN  /\ buf' = [buf EXCEPT ![p] = Drop(b, k)]
        /\ Store(Written(data, Take(b, k), ino),
                 IF k > 0 THEN synced \ {ino} ELSE synced)

\* a flush that writes nothing and leaves the buffer as it is
FlushFileSkipped(p, ino) ==
    /\ buf' = buf
    /\ Store(data, synced)

\* file.flush(): the userspace buffer goes to the file
FlushFile(p, ino) ==
    /\ buf' = [buf EXCEPT ![p] = <<>>]
    /\ Store(Written(data, buf[p], ino),
             IF buf[p] # <<>> THEN synced \ {ino} ELSE synced)

\* what one read of the source may return after the bytes in done: os.read
\* gives any non-empty piece of what is left, at most ReadSize bytes;
\* readline() gives the next line, or the unterminated rest of the stream;
\* both give the empty string at the end of the stream, and only there
Reads(done, rf) ==
    LET n == Len(done)
        more == { Take(Drop(Stream, n), k) : k \in 1..Min(ReadSize, MaxLen - n) }
        line == IF Stream[n + 1] = NL THEN 1 ELSE 2
        lines == { Take(Drop(Stream, n), k) : k \in 1..Min(line, MaxLen - n) }
    IN  IF rf THEN {<<>>} \cup more
        ELSE IF n > 0 /\ done[n] # NL THEN {<<>>}
        ELSE {<<>>} \cup lines

\* no call has started
InitCalls ==
    /\ clock = 0
    /\ _ENTROPY_PID = None /\ _ENTROPY_TIME = None /\ _ENTROPY_HOST = None
    /\ _ENTROPY = 0
    /\ link = [p \in AllCalls |-> FALSE]
    /\ trg_queues = [p \in AllCalls |-> <<>>]
    /\ idx = [p \in AllCalls |-> 0]
    /\ trg_fd = [p \in AllCalls |-> <<>>]
    /\ created = [p \in AllCalls |-> {}]
    /\ staged = [p \in AllCalls |-> {}]
    /\ pc = [p \in AllCalls |-> "idle"]
    /\ now = [p \in AllCalls |-> None]
    /\ entropy = [p \in AllCalls |-> None]
    /\ payload = [p \in AllCalls |-> <<>>]
    /\ eos = {}
    /\ real_file = [p \in AllCalls |-> FALSE]
    /\ buf = [p \in AllCalls |-> <<>>]
    /\ item_name = [p \in AllCalls |-> NoName]
    /\ commit_name = [p \in AllCalls |-> NoName]
    /\ tried = [p \in AllCalls |-> 0]
    /\ kw_entropy = [p \in AllCalls |-> <<>>]
    /\ exc = [p \in AllCalls |-> NoExc]
    /\ retval = [p \in AllCalls |-> NoName]
    /\ published = {}

\* venqueue: the queue is empty, and the callers leave venqueue's
\* enqueue_tries at its default, FSQ_ENQUEUE_TRIES
Init ==
    /\ variant \in {"link", "rename"}
    /\ enqueue_tries \in EnqueueTries
    /\ variant = "link" => enqueue_tries = 0
    /\ venqueue_tries = enqueue_tries
    /\ tmp = Empty /\ queue = Empty /\ data = Empty /\ synced = {}
    /\ InitCalls

\* the formatted time moves on
Tick ==
    /\ clock < MaxTick
    /\ clock' = clock + 1
    /\ UNCHANGED <<config, globals, fs, pc, now, entropy, source, buf, names,
                   mkitem, exc, retval, published>>

Goto(p, l) == pc' = [pc EXCEPT ![p] = l]
Raise(p, l, e) == pc' = [pc EXCEPT ![p] = l] /\ exc' = [exc EXCEPT ![p] = e]

\* calls are numbered in the order they start
MayStart(p) == pc[p] = "idle" /\ \A o \in AllCalls : o < p => pc[o] # "idle"

\* the call is over: its file objects and its clock reading are gone; the
\* names it used are remembered only when it returns, and what its source
\* delivered only when it returns or while a file it created has a name
Return(p, l) ==
    /\ now' = [now EXCEPT ![p] = None]
    /\ entropy' = [entropy EXCEPT ![p] = None]
    /\ buf' = [buf EXCEPT ![p] = <<>>]
    /\ real_file' = [real_file EXCEPT ![p] = FALSE]
    /\ tried' = [tried EXCEPT ![p] = 0]
    /\ IF l = "returned"
       THEN UNCHANGED <<item_name, commit_name>>
       ELSE /\ item_name' = [item_name EXCEPT ![p] = NoName]
            /\ commit_name' = [commit_name EXCEPT ![p] = NoName]
    /\ LET linked == \/ l = "returned"
                     \/ \E i \in Range(tmp') \cup Range(queue') : Creator(i) = p
       IN /\ payload' = [payload EXCEPT ![p] = IF linked THEN @ ELSE <<>>]
          /\ eos' = IF linked THEN eos ELSE eos \ {p}
    /\ pc' = [pc EXCEPT ![p] = l]
Raised(p, e) == Return(p, "raised") /\ exc' = [exc EXCEPT ![p] = e]


(***************************************************************************)
(* fsq/enqueue.py: _mkentropy and venqueue, link strategy                   *)
(***************************************************************************)

\* venqueue lines 74-82: defaults, now, pid, host, tries
LinkVenqueue(p) ==
    /\ variant = "link" /\ MayStart(p)
    /\ now' = [now EXCEPT ![p] = clock]
    /\ Goto(p, "ent_cmp")
    /\ UNCHANGED <<config, clock, globals, fs, entropy, source, buf, names,
                   mkitem, exc, retval, published>>

\* _mkentropy line 41: the comparison of the identity tuple
MkEntropyCompare(p) ==
    /\ pc[p] = "ent_cmp"
    /\ IF _ENTROPY_PID = Pid /\ _ENTROPY_TIME = now[p] /\ _ENTROPY_HOST = Host
       THEN Goto(p, "ent_load")
       ELSE Goto(p, "ent_key")
    /\ UNCHANGED <<config, clock, globals, fs, now, entropy, source, buf,
                   names, mkitem, exc, retval, published>>

\* _mkentropy line 42, first half of _ENTROPY += 1: read the global
MkEntropyLoad(p) ==
    /\ pc[p] = "ent_load"
    /\ entropy' = [entropy EXCEPT ![p] = _ENTROPY]
    /\ Goto(p, "ent_store")
    /\ UNCHANGED <<config, clock, globals, fs, now, source, buf, names,
                   mkitem, exc, retval, published>>

\* an increment that writes back the value it read
MkEntropyStoreSame(p) ==
    /\ pc[p] = "ent_store"
    /\ _ENTROPY' = entropy[p]
    /\ Goto(p, "ent_ret")
    /\ UNCHANGED <<config, clock, _ENTROPY_PID, _ENTROPY_TIME, _ENTROPY_HOST,
                   fs, now, entropy, source, buf, names, mkitem, exc, retval,
                   published>>

\* _mkentropy line 42, second half of _ENTROPY += 1: write the global
MkEntropyStore(p) ==
    /\ pc[p] = "ent_store"
    /\ _ENTROPY' = entropy[p] + 1
    /\ Goto(p, "ent_ret")
    /\ UNCHANGED <<config, clock, _ENTROPY_PID, _ENTROPY_TIME, _ENTROPY_HOST,
                   fs, now, entropy, source, buf, names, mkitem, exc, retval,
                   published>>

\* _mkentropy lines 44-46: the new identity tuple (pid and host never change
\* within the process, so the three stores are one step)
MkEntropyKey(p) ==
    /\ pc[p] = "ent_key"
    /\ _ENTROPY_PID' = Pid /\ _ENTROPY_TIME' = now[p] /\ _ENTROPY_HOST' = Host
    /\ Goto(p, "ent_zero")
    /\ UNCHANGED <<config, clock, _ENTROPY, fs, now, entropy, source, buf,
                   names, mkitem, exc, retval, published>>

\* _mkentropy line 47
MkEntropyZero(p) ==
    /\ pc[p] = "ent_zero"
    /\ _ENTROPY' = 0
    /\ Goto(p, "ent_ret")
    /\ UNCHANGED <<config, clock, _ENTROPY_PID, _ENTROPY_TIME, _ENTROPY_HOST,
                   fs, now, entropy, source, buf, names, mkitem, exc, retval,
                   published>>

\* _mkentropy line 48 and venqueue line 83: entropy = the global as it is now
MkEntropyReturn(p) ==
    /\ pc[p] = "ent_ret"
    /\ entropy' = [entropy EXCEPT ![p] = _ENTROPY]
    /\ Goto(p, "src")
    /\ UNCHANGED <<config, clock, globals, fs, now, source, buf, names,
                   mkitem, exc, retval, published>>

\* venqueue lines 86-89: rationalize_file, outside every cleanup
LinkRationalize(p) ==
    /\ pc[p] = "src"
    /\ UNCHANGED <<config, clock, globals, fs, kw_entropy, retval, published>>
    /\ \/ /\ Goto(p, "open")
          /\ UNCHANGED <<exc, now, entropy, source, buf, names, tried>>
       \/ Raised(p, Exc("FSQEnqueueError", "EIO"))

LinkItemName(p) == construct(<<now[p], entropy[p], Pid, Host, "0">> \o Args)

\* an open without O_EXCL never fails on a name that is taken
EEXISTNever(dir, path) == FALSE

\* os.open(path, O_WRONLY|O_CREAT|O_EXCL, mode): EEXIST when the name is
\* taken, else a new empty file under that name
EEXIST(dir, path) == Exists(dir, path)

\* venqueue lines 91-101: real_file, the name, os.open; a failure is raised
\* as FSQEnqueueError without any cleanup
LinkOpen(p) ==
    /\ pc[p] = "open"
    /\ LET path == Path(TrgQueue, LinkItemName(p))
       IN \/ /\ ~EEXIST(tmp, path)
             /\ tmp' = Put(tmp, path, TmpIno(p))
             /\ item_name' = [item_name EXCEPT ![p] = LinkItemName(p)]
             /\ \E rf \in BOOLEAN : real_file' = [real_file EXCEPT ![p] = rf]
             /\ Goto(p, "fchown")
             /\ UNCHANGED <<queue, exc, now, entropy, payload, eos, buf,
                            commit_name, tried>>
             /\ Store((TmpIno(p) :> <<>>) @@ data, synced)
          \/ /\ EEXIST(tmp, path)
             /\ UNCHANGED fs
             /\ Raised(p, Exc("FSQEnqueueError", "EEXIST"))
          \/ /\ ~EEXIST(tmp, path)
             /\ UNCHANGED fs
             /\ Raised(p, Exc("FSQEnqueueError", "EIO"))
    /\ UNCHANGED <<config, clock, globals, kw_entropy, retval, published>>

\* an exception inside the try of line 102: the with block of line 106
\* closes trg_file and control reaches line 138
LinkFail(p, e) == Raise(p, "cleanup", e)

\* venqueue lines 103-106: uid_gid, os.fchown, os.fdopen
LinkFchown(p) ==
    /\ pc[p] = "fchown"
    /\ \/ Goto(p, "copy") /\ UNCHANGED exc
       \/ LinkFail(p, Exc("OSError", "EPERM"))
    /\ UNCHANGED <<config, clock, globals, fs, now, entropy, source, buf,
                   names, mkitem, retval, published>>

\* the loop of lines 108-124 is left on an empty read
CopyBreak(p, l) ==
    /\ eos' = eos \cup {p}
    /\ real_file' = [real_file EXCEPT ![p] = FALSE]
    /\ Goto(p, l)

\* venqueue lines 108-124: one turn of the copy loop, with os.read for a
\* source that has a descriptor and readline() for one that has none
LinkCopy(p) ==
    /\ pc[p] = "copy"
    /\ \/ \E msg \in Reads(payload[p], real_file[p]) :
             IF msg = <<>>
             THEN /\ CopyBreak(p, "flush")
                  /\ UNCHANGED <<fs, payload, buf, exc>>
             ELSE /\ payload' = [payload EXCEPT ![p] = @ \o msg]
                  /\ UNCHANGED <<tmp, queue, pc, exc, eos, real_file>>
                  /\ WriteFile(p, TmpIno(p), msg)
       \/ /\ LinkFail(p, Exc("OSError", "EIO"))      \* read or write fails
          /\ UNCHANGED <<fs, source, buf>>
    /\ UNCHANGED <<config, clock, globals, now, entropy, names, mkitem,
                   retval, published>>

\* venqueue lines 115-117: os.read fails with EWOULDBLOCK/EAGAIN and the
\* loop goes round again
LinkCopyAgain(p) ==
    /\ pc[p] = "copy" /\ real_file[p]
    /\ UNCHANGED vars

\* venqueue line 127: trg_file.flush()
LinkFlush(p) ==
    /\ pc[p] = "flush"
    /\ \/ /\ Goto(p, "fsync")
          /\ UNCHANGED <<tmp, queue, exc>>
          /\ FlushFile(p, TmpIno(p))
       \/ /\ LinkFail(p, Exc("OSError", "EIO"))
          /\ UNCHANGED <<fs, buf>>
    /\ UNCHANGED <<config, clock, globals, now, entropy, source, names,
                   mkitem, retval, published>>

\* venqueue line 128: os.fsync(trg_file.fileno())
LinkFsync(p) ==
    /\ pc[p] = "fsync"
    /\ \/ /\ Goto(p, "link")
          /\ UNCHANGED <<tmp, queue, exc>>
          /\ Store(data, synced \cup {TmpIno(p)})
       \/ /\ LinkFail(p, Exc("OSError", "EIO"))
          /\ UNCHANGED fs
    /\ UNCHANGED <<config, clock, globals, now, entropy, source, buf, names,
                   mkitem, retval, published>>

\* venqueue lines 132-133: os.link(tmp_name, fsq_path.item(trg_queue,
\* item_name)): the file that has the staging name now gets the live name
LinkLink(p) ==
    /\ pc[p] = "link"
    /\ LET src == Path(TrgQueue, item_name[p])
           dst == Path(TrgQueue, item_name[p])
       IN \/ /\ Exists(tmp, src) /\ ~Exists(queue, dst)
             /\ queue' = Put(queue, dst, tmp[src])
             /\ published' = published \cup {p}
             /\ Goto(p, "unlink")
             /\ UNCHANGED <<tmp, data, synced, exc>>
          \/ /\ Exists(tmp, src) /\ Exists(queue, dst)
             /\ LinkFail(p, Exc("OSError", "EEXIST"))
             /\ UNCHANGED <<fs, published>>
          \/ /\ ~Exists(tmp, src)
             /\ LinkFail(p, Exc("OSError", "ENOENT"))
             /\ UNCHANGED <<fs, published>>
          \/ /\ LinkFail(p, Exc("OSError", "EIO"))
             /\ UNCHANGED <<fs, published>>
    /\ UNCHANGED <<config, clock, globals, now, entropy, source, buf, names,
                   mkitem, retval>>

\* venqueue line 134: os.unlink(tmp_name)
LinkUnlink(p) ==
    /\ pc[p] = "unlink"
    /\ LET path == Path(TrgQueue, item_name[p])
       IN \/ /\ Exists(tmp, path)
             /\ tmp' = Remove(tmp, path)
             /\ Goto(p, "return")
             /\ UNCHANGED <<queue, exc>>
             /\ Store(data, synced)
          \/ /\ ~Exists(tmp, path)
             /\ LinkFail(p, Exc("OSError", "ENOENT"))
             /\ UNCHANGED fs
          \/ /\ LinkFail(p, Exc("OSError", "EIO"))
             /\ UNCHANGED fs
    /\ UNCHANGED <<config, clock, globals, now, entropy, source, buf, names,
                   mkitem, retval, published>>

\* venqueue line 137 leaving the with block of line 106: trg_file.close(),
\* then the value goes to the caller
LinkReturn(p) ==
    /\ pc[p] = "return"
    /\ \/ /\ retval' = [retval EXCEPT ![p] = item_name[p]]
          /\ UNCHANGED <<tmp, queue, exc>>
          /\ Return(p, "returned")
          /\ Store(data, synced)
       \/ /\ LinkFail(p, Exc("OSError", "EIO"))
          /\ UNCHANGED <<fs, retval, now, entropy, source, buf, names, tried>>
    /\ UNCHANGED <<config, clock, globals, kw_entropy, published>>

\* venqueue lines 156-159: what reaches the caller
LinkReraise(e) == IF IsOSError(e) THEN Exc("FSQEnqueueError", e.errno) ELSE e

\* a handler that raises without unlinking tmp_name
LinkCleanupKeeps(p) ==
    /\ pc[p] = "cleanup"
    /\ UNCHANGED <<tmp, queue>>
    /\ Raised(p, LinkReraise(exc[p]))
    /\ Store(data, synced)
    /\ UNCHANGED <<config, clock, globals, kw_entropy, retval, published>>

\* venqueue lines 138-159: os.close(trg_fd), where EBADF is swallowed and
\* any other failure is raised at once; os.unlink(tmp_name) of whatever file
\* has that name now, where ENOENT is swallowed and any other failure is
\* raised at once; name is None; then the exception is raised
LinkCleanup(p) ==
    /\ pc[p] = "cleanup"
    /\ LET path == Path(TrgQueue, item_name[p])
       IN \/ /\ tmp' = IF Exists(tmp, path) THEN Remove(tmp, path) ELSE tmp
             /\ UNCHANGED queue
             /\ Raised(p, LinkReraise(exc[p]))
          \/ /\ UNCHANGED <<tmp, queue>>
             /\ Raised(p, Exc("FSQEnqueueError", "EIO"))
    /\ Store(data, synced)
    /\ UNCHANGED <<config, clock, globals, kw_entropy, retval, published>>

LinkStep(p) ==
    \/ LinkVenqueue(p)
    \/ MkEntropyCompare(p) \/ MkEntropyLoad(p) \/ MkEntropyStore(p)
    \/ MkEntropyKey(p) \/ MkEntropyZero(p) \/ MkEntropyReturn(p)
    \/ LinkRationalize(p) \/ LinkOpen(p) \/ LinkFchown(p)
    \/ LinkCopy(p) \/ LinkCopyAgain(p)
    \/ LinkFlush(p) \/ LinkFsync(p) \/ LinkLink(p) \/ LinkUnlink(p)
    \/ LinkReturn(p) \/ LinkCleanup(p)

(***************************************************************************)
(* lib/fsq/enqueue.py: _mkitem and venqueue, rename strategy                *)
(***************************************************************************)

\* _mkitem lines 68-70 as called at venqueue lines 153-155 and 166-167 with
\* **std_kwargs: a keyword named entropy binds to _mkitem's own parameter
\* entropy, so it is never among the **std_kwargs that _mkitem receives
MkitemStdKwargs(kw) == <<>>

\* _mkitem line 73: std_kwargs.has_key('entropy')
recv_entropy(std_kwargs) == std_kwargs # <<>>

\* _std_args lines 31 and 60: the entropy field, 0 unless given
StdEntropy(std_kwargs) == IF std_kwargs = <<>> THEN 0 ELSE std_kwargs[1]

\* _mkitem lines 71-74: tried = 0 and the fields of _std_args, with the
\* clock read anew by every _mkitem
MkitemEnter(p) ==
    /\ now' = [now EXCEPT ![p] = clock]
    /\ entropy' = [entropy EXCEPT ![p] =
                       StdEntropy(MkitemStdKwargs(kw_entropy[p]))]
    /\ tried' = [tried EXCEPT ![p] = 0]

\* venqueue lines 137-153: std_kwargs, rationalize_file, the paths and the
\* entry into _mkitem(tmp_path, ...)
RenVenqueue(p) ==
    /\ variant = "rename" /\ MayStart(p)
    /\ UNCHANGED <<config, clock, globals, fs, retval, published>>
    /\ \E e \in KwEntropy : kw_entropy' = [kw_entropy EXCEPT ![p] = e]
    /\ \/ /\ now' = [now EXCEPT ![p] = clock]
          /\ entropy' = [entropy EXCEPT ![p] =
                             StdEntropy(MkitemStdKwargs(kw_entropy'[p]))]
          /\ Goto(p, "stage_open")
          /\ UNCHANGED <<source, buf, names, tried, exc>>
       \/ Raised(p, Exc("OSError", "EIO"))

MkitemName(p) == construct(<<now[p], entropy[p], Pid, Host, "0">> \o Args)

\* the directory _mkitem works in, the inode it creates there, and where
\* venqueue goes on when _mkitem returns
MkDir(d) == IF d = "tmp" THEN tmp ELSE queue
MkIno(p, d) == IF d = "tmp" THEN TmpIno(p) ELSE QueueIno(p)
MkPc(d, step) ==
    IF step = "open"
    THEN (IF d = "tmp" THEN "stage_open" ELSE "commit_open")
    ELSE (IF d = "tmp" THEN "stage_fchown" ELSE "commit_fchown")

\* an exception leaves _mkitem: the staging call of line 153 stands outside
\* the try of line 157, the commit call of line 166 inside it
MkitemRaise(p, d, e) ==
    IF d = "tmp"
    THEN Raised(p, e)
    ELSE /\ Raise(p, "except", e)
         /\ UNCHANGED <<now, entropy, source, buf, names, tried>>

\* _mkitem line 76: the loop goes on
MkitemMore(t) == 0 >= enqueue_tries \/ enqueue_tries > t

\* _mkitem lines 76-93 and 107: one turn of the loop, os.open(trg,
\* O_CREAT|O_EXCL|O_WRONLY) under the candidate name
MkitemOpen(p, d) ==
    /\ pc[p] = MkPc(d, "open")
    /\ UNCHANGED <<config, clock, globals, kw_entropy, retval, published>>
    /\ LET path == Path(TrgQueue, MkitemName(p))
           t == tried[p] + 1
       IN \/ /\ ~EEXIST(MkDir(d), path)
             /\ IF d = "tmp"
                THEN /\ tmp' = Put(tmp, path, TmpIno(p))
                     /\ item_name' = [item_name EXCEPT ![p] = MkitemName(p)]
                     /\ UNCHANGED <<queue, commit_name>>
                ELSE /\ queue' = Put(queue, path, QueueIno(p))
                     /\ commit_name' = [commit_name EXCEPT ![p] = MkitemName(p)]
                     /\ UNCHANGED <<tmp, item_name>>
             /\ tried' = [tried EXCEPT ![p] = t]
             /\ Goto(p, MkPc(d, "fchown"))
             /\ UNCHANGED <<now, entropy, source, buf, exc>>
             /\ Store((MkIno(p, d) :> <<>>) @@ data, synced)
          \/ /\ EEXIST(MkDir(d), path)
             /\ UNCHANGED fs
             /\ IF recv_entropy(MkitemStdKwargs(kw_entropy[p]))
                THEN MkitemRaise(p, d, Exc("FSQMaxEnqueueTriesError", "EAGAIN"))
                ELSE IF MkitemMore(t)
                THEN /\ entropy' = [entropy EXCEPT ![p] = t]
                     /\ tried' = [tried EXCEPT ![p] = t]
                     /\ UNCHANGED <<pc, now, source, buf, names, exc>>
                ELSE MkitemRaise(p, d, Exc("FSQMaxEnqueueTriesError", "EAGAIN"))
          \/ /\ ~EEXIST(MkDir(d), path)                   \* any other errno
             /\ UNCHANGED fs
             /\ MkitemRaise(p, d, Exc("OSError", "EIO"))

\* _mkitem lines 94-104: uid_gid, os.fchown, os.dup and os.fdopen; on a
\* failure the file just created is unlinked by name and the exception raised
MkitemFchown(p, d) ==
    /\ pc[p] = MkPc(d, "fchown")
    /\ UNCHANGED <<config, clock, globals, kw_entropy, retval, published>>
    /\ LET path == Path(TrgQueue, IF d = "tmp" THEN item_name[p] ELSE commit_name[p])
       IN \/ /\ Goto(p, IF d = "tmp" THEN "readline" ELSE "rename")
             /\ UNCHANGED <<fs, now, entropy, source, buf, names, tried, exc>>
          \/ \E e \in {Exc("OSError", "EPERM")} :
             /\ IF d = "tmp"
                THEN tmp' = Remove(tmp, path) /\ UNCHANGED queue
                ELSE queue' = Remove(queue, path) /\ UNCHANGED tmp
             /\ MkitemRaise(p, d, IF Exists(MkDir(d), path) THEN e
                                  ELSE Exc("OSError", "ENOENT"))
             /\ Store(data, synced)

\* venqueue lines 159-167: one turn of the copy loop; on the empty line the
\* loop is left and _mkitem(queue_path, args, **std_kwargs) is entered
RenCopy(p) ==
    /\ pc[p] = "readline"
    /\ UNCHANGED <<config, clock, globals, kw_entropy, retval, published, names>>
    /\ \/ \E msg \in Reads(payload[p], FALSE) :
             IF msg = <<>>
             THEN /\ eos' = eos \cup {p}
                  /\ MkitemEnter(p)
                  /\ Goto(p, "commit_open")
                  /\ UNCHANGED <<fs, payload, real_file, buf, exc>>
             ELSE /\ payload' = [payload EXCEPT ![p] = @ \o msg]
                  /\ UNCHANGED <<tmp, queue, pc, exc, eos, real_file, now,
                                 entropy, tried>>
                  /\ WriteFile(p, TmpIno(p), msg)
       \/ /\ Raise(p, "except", Exc("OSError", "EIO"))   \* read or write fails
          /\ UNCHANGED <<fs, source, buf, now, entropy, tried>>

\* venqueue line 169: os.rename(name, commit_name): the file that has the
\* staging name now takes the live name, replacing the file that had it
RenRename(p) ==
    /\ pc[p] = "rename"
    /\ UNCHANGED <<config, clock, globals, now, entropy, source, buf, names,
                   mkitem, retval>>
    /\ LET src == Path(TrgQueue, item_name[p])
           dst == Path(TrgQueue, commit_name[p])
       IN \/ /\ Exists(tmp, src)
             /\ queue' = Put(queue, dst, tmp[src])
             /\ tmp' = Remove(tmp, src)
             /\ published' = published \cup {p}
             /\ Goto(p, "close_commit")
             /\ UNCHANGED exc
             /\ Store(data, synced)
          \/ /\ ~Exists(tmp, src)
             /\ Raise(p, "except", Exc("OSError", "ENOENT"))
             /\ UNCHANGED <<fs, published>>
          \/ /\ Raise(p, "except", Exc("OSError", "EIO"))
             /\ UNCHANGED <<fs, published>>

\* venqueue line 168, leaving the with block: commit_file.close()
RenCloseCommit(p) ==
    /\ pc[p] = "close_commit"
    /\ \/ Goto(p, "close_trg") /\ UNCHANGED exc
       \/ Raise(p, "except", Exc("OSError", "EIO"))
    /\ UNCHANGED <<config, clock, globals, fs, now, entropy, source, buf,
                   names, mkitem, retval, published>>

\* venqueue lines 170-176: os.unlink(name) of whatever file has the staging
\* name now; "except OSError, e" rebinds e, so after a swallowed ENOENT it is
\* the ENOENT that line 176 raises
RenExcept(p) ==
    /\ pc[p] = "except"
    /\ UNCHANGED <<config, clock, globals, now, entropy, source, buf, names,
                   mkitem, retval, published, queue>>
    /\ LET path == Path(TrgQueue, item_name[p])
       IN \/ /\ Exists(tmp, path)
             /\ tmp' = Remove(tmp, path)
             /\ Goto(p, "close_trg")
             /\ UNCHANGED exc
          \/ /\ ~Exists(tmp, path)
             /\ Raise(p, "close_trg", Exc("OSError", "ENOENT"))
             /\ UNCHANGED tmp
          \/ /\ Raise(p, "close_trg", Exc("OSError", "EIO"))
             /\ UNCHANGED tmp
    /\ Store(data, synced)

\* venqueue lines 156 and 149, leaving the with blocks: trg_file.close()
\* writes what the userspace buffer still holds, src_file is closed, and the
\* call returns (nothing) or the exception goes on to the caller
RenCloseTrg(p) ==
    /\ pc[p] = "close_trg"
    /\ UNCHANGED <<config, clock, globals, kw_entropy, published, tmp, queue>>
    /\ \/ /\ IF exc[p] = NoExc
             THEN /\ Return(p, "returned")
                  /\ retval' = [retval EXCEPT ![p] = NoName]
                  /\ UNCHANGED exc
             ELSE Raised(p, exc[p]) /\ UNCHANGED retval
          /\ Store(Written(data, buf[p], TmpIno(p)),
                   IF buf[p] # <<>> THEN synced \ {TmpIno(p)} ELSE synced)
       \/ /\ Raised(p, Exc("OSError", "EIO"))
          /\ UNCHANGED retval
          /\ Store(data, synced)

RenStep(p) ==
    \/ RenVenqueue(p)
    \/ MkitemOpen(p, "tmp") \/ MkitemFchown(p, "tmp")
    \/ RenCopy(p)
    \/ MkitemOpen(p, "queue") \/ MkitemFchown(p, "queue")
    \/ RenRename(p) \/ RenCloseCommit(p) \/ RenExcept(p) \/ RenCloseTrg(p)

(***************************************************************************)
(* fsq/enqueue.py: vreenqueue                                               *)
(***************************************************************************)

\* the item vreenqueue is given, live in src_queue
SrcIno == <<0, "src">>
\* the file a copying vreenqueue call creates in a target queue
ReIno(p, q) == <<p, q>>

\* the item lies in the source queue, the target queues are empty
InitReenqueue ==
    /\ variant = "reenqueue"
    /\ enqueue_tries = 0
    /\ venqueue_tries = 0
    /\ tmp = Empty
    /\ queue = (Path(SrcQueue, ItemId) :> SrcIno)
    /\ data = (SrcIno :> Take(Stream, MaxLen))
    /\ synced = {SrcIno}
    /\ InitCalls

\* what a vreenqueue call leaves alone while it runs
ReLocals == <<clock, globals, now, entropy, source, buf, names, mkitem,
              retval, published, variant, enqueue_tries, venqueue_tries>>

\* the call is over
ReReturn(p, l) ==
    /\ Return(p, l)
    /\ idx' = [idx EXCEPT ![p] = 0]
    /\ trg_fd' = [trg_fd EXCEPT ![p] = <<>>]
    /\ created' = [created EXCEPT ![p] = {}]
    /\ staged' = [staged EXCEPT ![p] = {}]
    /\ UNCHANGED <<link, trg_queues, clock, globals, kw_entropy, retval,
                   published, variant, enqueue_tries, venqueue_tries>>
ReRaised(p, e) == ReReturn(p, "raised") /\ exc' = [exc EXCEPT ![p] = e]

\* an exception inside the try that is dropped, the call going on to publish
ReFailPublishes(p, e) ==
    /\ Goto(p, "re_publish")
    /\ idx' = [idx EXCEPT ![p] = 1]
    /\ UNCHANGED <<fs, link, trg_queues, trg_fd, created, staged, exc, ReLocals>>

\* an exception inside the try of line 221 reaches line 273
ReFail(p, e) ==
    /\ Raise(p, "re_except", e)
    /\ UNCHANGED <<fs, reenq, ReLocals>>

\* the for loops of lines 242 and 261: the queue at hand, its tmp_name, and
\* the step to the next queue
ReQueue(p) == trg_queues[p][idx[p]]
ReTmpName(p) == Path(ReQueue(p), ItemId)
ReNextQueue(p) == idx' = [idx EXCEPT ![p] = @ + 1]
ReCreated(p, dir, path) == created' = [created EXCEPT ![p] = @ \cup {<<dir, path>>}]
\* the staging of the item for the queue at hand is complete
ReStaged(p) == staged' = [staged EXCEPT ![p] = @ \cup {ReQueue(p)}]

\* vreenqueue lines 204-220: the keywords, item_f given as the item's id
\* together with src_queue, and rationalize_file
ReVreenqueue(p) ==
    /\ variant = "reenqueue" /\ MayStart(p)
    /\ \E l \in BOOLEAN : link' = [link EXCEPT ![p] = l]
    /\ \E qs \in TrgQueues : trg_queues' = [trg_queues EXCEPT ![p] = qs]
    /\ UNCHANGED <<fs, clock, globals, kw_entropy, retval, published, variant,
                   enqueue_tries, venqueue_tries>>
    /\ \/ /\ Goto(p, "re_read")
          /\ UNCHANGED <<idx, trg_fd, created, staged, exc, now, entropy, source, buf,
                         names, tried>>
       \/ /\ Return(p, "raised")
          /\ exc' = [exc EXCEPT ![p] = Exc("FSQReenqueueError", "EIO")]
          /\ UNCHANGED <<idx, trg_fd, created, staged>>

\* vreenqueue lines 223-239: msg = [] and the read loop, which is left in its
\* first turn whatever the source delivers (0 == len(msg) tests the list, and
\* the readline branch breaks at once), so msg stays empty
ReMsg == <<>>
ReRead(p) ==
    /\ pc[p] = "re_read"
    /\ \/ /\ Goto(p, "re_stage")
          /\ idx' = [idx EXCEPT ![p] = 1]
          /\ UNCHANGED <<fs, link, trg_queues, trg_fd, created, staged, exc, ReLocals>>
       \/ ReFail(p, Exc("OSError", "EIO"))

\* vreenqueue lines 231-233: os.read fails with EWOULDBLOCK/EAGAIN and the
\* loop goes round again
ReReadAgain(p) ==
    /\ pc[p] = "re_read"
    /\ UNCHANGED vars

\* vreenqueue lines 242-261: one turn of the staging loop up to its first
\* system call: os.link(fsq_path.item(src_queue, item_id), tmp_name) with
\* link, os.open(tmp_name, O_RDWR|O_CREAT|O_TRUNC) without
ReStage(p) ==
    /\ pc[p] = "re_stage"
    /\ IF idx[p] > Len(trg_queues[p])
       THEN /\ Goto(p, "re_publish")
            /\ idx' = [idx EXCEPT ![p] = 1]
            /\ UNCHANGED <<fs, link, trg_queues, trg_fd, created, staged, exc, ReLocals>>
       ELSE LET src == Path(SrcQueue, ItemId)
                tmp_name == ReTmpName(p)
            IN  IF link[p]
                THEN \/ /\ Exists(queue, src) /\ ~Exists(tmp, tmp_name)
                        /\ tmp' = Put(tmp, tmp_name, queue[src])
                        /\ ReCreated(p, "tmp", tmp_name)
                        /\ ReStaged(p)
                        /\ ReNextQueue(p)
                        /\ UNCHANGED <<queue, data, synced, pc, exc, link,
                                       trg_queues, trg_fd, ReLocals>>
                     \/ /\ Exists(queue, src) /\ Exists(tmp, tmp_name)
                        /\ Goto(p, "re_eexist")
                        /\ UNCHANGED <<fs, reenq, exc, ReLocals>>
                     \/ ReFail(p, Exc("FSQReenqueueError",
                                      IF Exists(queue, src) THEN "EIO" ELSE "ENOENT"))
                ELSE \/ /\ IF Exists(tmp, tmp_name)
                           THEN /\ UNCHANGED <<tmp, queue, created>>
                                /\ trg_fd' = [trg_fd EXCEPT ![p] = tmp[tmp_name]]
                                /\ Goto(p, "re_write")
                                /\ Store([data EXCEPT ![tmp[tmp_name]] = <<>>],
                                         synced \ {tmp[tmp_name]})
                           ELSE /\ tmp' = Put(tmp, tmp_name, ReIno(p, ReQueue(p)))
                                /\ UNCHANGED queue
                                /\ ReCreated(p, "tmp", tmp_name)
                                /\ trg_fd' = [trg_fd EXCEPT ![p] = ReIno(p, ReQueue(p))]
                                /\ Goto(p, "re_write")
                                /\ Store((ReIno(p, ReQueue(p)) :> <<>>) @@ data, synced)
                        /\ UNCHANGED <<link, trg_queues, idx, staged, exc, ReLocals>>
                     \/ ReFail(p, Exc("OSError", "EIO"))

\* vreenqueue line 250, after os.link gave EEXIST: os.unlink(tmp_name) of
\* whatever file has that name
ReEexist(p) ==
    /\ pc[p] = "re_eexist"
    /\ \/ /\ Exists(tmp, ReTmpName(p))
          /\ tmp' = Remove(tmp, ReTmpName(p))
          /\ Goto(p, "re_relink")
          /\ UNCHANGED <<queue, reenq, exc, ReLocals>>
          /\ Store(data, synced)
       \/ ReFail(p, Exc("OSError",
                        IF Exists(tmp, ReTmpName(p)) THEN "EIO" ELSE "ENOENT"))

\* vreenqueue lines 251-252: os.link(fsq_path.tmp(src_queue, item_id),
\* tmp_name), from the staging directory of the source queue, and continue
ReRelink(p) ==
    /\ pc[p] = "re_relink"
    /\ LET src == Path(SrcQueue, ItemId)
       IN \/ /\ Exists(tmp, src) /\ ~Exists(tmp, ReTmpName(p))
             /\ tmp' = Put(tmp, ReTmpName(p), tmp[src])
             /\ ReCreated(p, "tmp", ReTmpName(p))
             /\ ReStaged(p)
             /\ ReNextQueue(p)
             /\ Goto(p, "re_stage")
             /\ UNCHANGED <<queue, data, synced, exc, link, trg_queues,
                            trg_fd, ReLocals>>
          \/ ReFail(p, Exc("OSError",
                           IF ~Exists(tmp, src) THEN "ENOENT"
                           ELSE IF Exists(tmp, ReTmpName(p)) THEN "EEXIST"
                           ELSE "EIO"))

\* vreenqueue lines 257-260: trg_file.write(u''.join(msg)), flush, os.fsync
\* and the close at the end of the with block
ReWrite(p) ==
    /\ pc[p] = "re_write"
    /\ \/ /\ Goto(p, "re_stage")
          /\ ReStaged(p)
          /\ ReNextQueue(p)
          /\ UNCHANGED <<tmp, queue, link, trg_queues, trg_fd, created, exc,
                         ReLocals>>
          /\ Store(Written(data, ReMsg, trg_fd[p]), synced \cup {trg_fd[p]})
       \/ ReFail(p, Exc("OSError", "EIO"))

\* vreenqueue lines 262-270: one turn of the publishing loop up to
\* os.link(tmp_name, fsq_path.item(queue, item_id)); its failure goes on to
\* the caller only with link and an errno other than EEXIST; after the last
\* turn the call returns (nothing)
RePublish(p) ==
    /\ pc[p] = "re_publish"
    /\ IF idx[p] > Len(trg_queues[p])
       THEN /\ UNCHANGED <<tmp, queue, exc>>
            /\ ReReturn(p, "returned")
            /\ Store(data, synced)
       ELSE LET tmp_name == ReTmpName(p)
                dst == Path(ReQueue(p), ItemId)
                fails(e) == IF link[p]
                            THEN Raise(p, "re_finally", Exc("FSQReenqueueError", e))
                            ELSE Goto(p, "re_finally") /\ UNCHANGED exc
            IN  /\ \/ /\ Exists(tmp, tmp_name) /\ ~Exists(queue, dst)
                      /\ queue' = Put(queue, dst, tmp[tmp_name])
                      /\ ReCreated(p, "queue", dst)
                      /\ Goto(p, "re_finally")
                      /\ UNCHANGED <<tmp, data, synced, exc>>
                   \/ /\ Exists(tmp, tmp_name) /\ Exists(queue, dst)
                      /\ Goto(p, "re_finally")
                      /\ UNCHANGED <<fs, created, exc>>
                   \/ /\ fails(IF Exists(tmp, tmp_name) THEN "EIO" ELSE "ENOENT")
                      /\ UNCHANGED <<fs, created>>
                /\ UNCHANGED <<link, trg_queues, idx, trg_fd, staged, ReLocals>>

\* vreenqueue lines 271-272: finally os.unlink(tmp_name) of whatever file
\* has that name; then the failure of os.link, if any, goes on
ReFinally(p) ==
    /\ pc[p] = "re_finally"
    /\ \/ /\ Exists(tmp, ReTmpName(p))
          /\ tmp' = Remove(tmp, ReTmpName(p))
          /\ IF exc[p] = NoExc
             THEN Goto(p, "re_publish") /\ ReNextQueue(p)
             ELSE Goto(p, "re_except") /\ UNCHANGED idx
          /\ UNCHANGED <<queue, link, trg_queues, trg_fd, created, staged, exc, ReLocals>>
          /\ Store(data, synced)
       \/ ReFail(p, Exc("OSError",
                        IF Exists(tmp, ReTmpName(p)) THEN "EIO" ELSE "ENOENT"))

\* vreenqueue lines 273-279: without link, os.close(trg_fd): the name is
\* unbound when nothing was opened, else the descriptor is closed already
\* and EBADF is swallowed
ReExcept(p) ==
    /\ pc[p] = "re_except"
    /\ IF ~link[p] /\ trg_fd[p] = <<>>
       THEN /\ UNCHANGED <<tmp, queue>>
            /\ ReRaised(p, Exc("UnboundLocalError", None))
            /\ Store(data, synced)
       ELSE /\ Goto(p, "re_cleanup")
            /\ idx' = [idx EXCEPT ![p] = 1]
            /\ UNCHANGED <<fs, link, trg_queues, trg_fd, created, staged, exc, ReLocals>>

\* vreenqueue lines 294-297: what reaches the caller
ReReraise(e) == IF IsOSError(e) THEN Exc("FSQReenqueueError", e.errno) ELSE e

\* vreenqueue lines 280-297: one turn of the cleanup loop, os.unlink(tmp_name)
\* of whatever file has that name in each target queue, every failure of
\* which is swallowed; after the last turn the exception is raised
ReCleanup(p) ==
    /\ pc[p] = "re_cleanup"
    /\ IF idx[p] > Len(trg_queues[p])
       THEN /\ UNCHANGED <<tmp, queue>>
            /\ ReRaised(p, ReReraise(exc[p]))
            /\ Store(data, synced)
       ELSE /\ \/ tmp' = IF Exists(tmp, ReTmpName(p))
                         THEN Remove(tmp, ReTmpName(p)) ELSE tmp
               \/ tmp' = tmp
            /\ ReNextQueue(p)
            /\ UNCHANGED <<queue, pc, link, trg_queues, trg_fd, created, staged,
                           exc, ReLocals>>
            /\ Store(data, synced)

ReStep(p) ==
    \/ ReVreenqueue(p) \/ ReRead(p) \/ ReReadAgain(p)
    \/ ReStage(p) \/ ReEexist(p) \/ ReRelink(p) \/ ReWrite(p)
    \/ RePublish(p) \/ ReFinally(p) \/ ReExcept(p) \/ ReCleanup(p)

NextReenqueue == \E p \in Calls : ReStep(p)
SpecReenqueue == InitReenqueue /\ [][NextReenqueue]_vars

Next == Tick \/ \E p \in Calls : LinkStep(p) \/ RenStep(p)

Spec == Init /\ [][Next]_vars

\* venqueue calls of the rename strategy made by two threads in one clock
\* tick, none with keywords of its own and each with a source of at most one
\* byte: one call more than in Spec, at most two of them under way at a time
InitRename3 == Init /\ variant = "rename" /\ enqueue_tries = 0
NextRename3 ==
    /\ \E p \in AllCalls : RenStep(p) /\ kw_entropy' = kw_entropy
    /\ Cardinality({ p \in AllCalls : pc'[p] \notin Terminal \cup {"idle"} }) <= 2
    /\ \A p \in AllCalls : Len(payload'[p]) <= 1
SpecRename3 == InitRename3 /\ [][NextRename3]_vars

\* venqueue calls of the rename strategy in one clock tick, none with an
\* entropy of its own, all given the same enqueue_tries by their callers,
\* which need not be FSQ_ENQUEUE_TRIES
InitTries ==
    /\ variant = "rename"
    /\ enqueue_tries \in EnqueueTries
    /\ venqueue_tries \in EnqueueTries
    /\ tmp = Empty /\ queue = Empty /\ data = Empty /\ synced = {}
    /\ InitCalls
NextTries == \E p \in Calls : RenStep(p) /\ kw_entropy' = kw_entropy
SpecTries == InitTries /\ [][NextTries]_vars

\* venqueue calls of the link strategy whose _mkentropy calls come one after
\* the other: a call enters _mkentropy only when no other call is inside;
\* one call more than in Spec, each with a source of at most one byte
EntropyPcs == {"ent_cmp", "ent_load", "ent_store", "ent_key", "ent_zero", "ent_ret"}
InitEntropy == Init /\ variant = "link"
NextEntropy ==
    /\ Tick \/ \E p \in AllCalls : LinkStep(p)
    /\ Cardinality({ p \in AllCalls : pc'[p] \in EntropyPcs }) <= 1
    /\ \A p \in AllCalls : Len(payload'[p]) <= 1
SpecEntropy == InitEntropy /\ [][NextEntropy]_vars

(***************************************************************************)
(* Properties                                                              *)
(***************************************************************************)

\* a file holds everything its creator's source delivered up to the end of
\* the stream
Complete(i) ==
    /\ i \in DOMAIN data
    /\ Creator(i) \in eos
    /\ data[i] = payload[Creator(i)]

\* the name a finished call's item went live under
Identifier(p) == IF variant = "link" THEN item_name[p] ELSE commit_name[p]

\* C1: with the link strategy, whatever has a name in the live directory at
\* any moment is a file holding the complete payload of the call that made
\* it: a reader never finds an empty or partly written item there
C1_LinkAtomicVisibility ==
    variant = "link" => \A path \in DOMAIN queue : Complete(queue[path])

\* an item is live while another call is in the middle of its copy with
\* bytes still in its userspace buffer
C1_Witness ==
    /\ variant = "link"
    /\ \E p, q \in Calls :
          /\ p # q
          /\ \E path \in DOMAIN queue : queue[path] = TmpIno(p)
          /\ Len(payload[p]) > 1
          /\ pc[q] = "copy" /\ buf[q] # <<>>

\* C2: with the rename strategy, whatever has a name in the live directory
\* at any moment is a file holding the complete payload of the call that
\* made it: a reader never finds the zero-length placeholder or a partly
\* written item there
C2_RenameAtomicVisibility ==
    variant = "rename" => \A path \in DOMAIN queue : Complete(queue[path])

\* C3: in both strategies, when a call stands before its publish step
\* (os.link, os.rename) every byte of its payload is in the staging file and
\* not in a userspace buffer, and the file has been fsync'ed since
C3_DurableBeforePublish ==
    \A p \in AllCalls :
       pc[p] \in {"link", "rename"} =>
          /\ p \in eos
          /\ buf[p] = <<>>
          /\ TmpIno(p) \in DOMAIN data /\ data[TmpIno(p)] = payload[p]
          /\ payload[p] # <<>> => TmpIno(p) \in synced

\* C4: a call that has not completed its publish step, whether it is still
\* running (and may crash here), or has failed, has no entry of its own in
\* the live directory
C4_NothingLiveBeforePublish ==
    \A p \in AllCalls :
       p \notin published => \A path \in DOMAIN queue : Creator(queue[path]) # p

\* C5: no step of a call takes a staging or live name away from a file that
\* another call created, or gives that name to another file
C5_Step ==
    /\ \A path \in DOMAIN tmp :
          (path \notin DOMAIN tmp' \/ tmp'[path] # tmp[path])
             => pc'[Creator(tmp[path])] # pc[Creator(tmp[path])]
    /\ \A path \in DOMAIN queue :
          (path \notin DOMAIN queue' \/ queue'[path] # queue[path])
             => pc'[Creator(queue[path])] # pc[Creator(queue[path])]
C5_NoClobber == [][C5_Step]_vars

\* C6: every step of a vreenqueue call leaves alone the files of its target
\* queues that it has not created itself during the call: it neither takes
\* their staging or live name away, nor gives that name to another file,
\* nor truncates them
ReActor(p) == pc'[p] # pc[p] \/ idx'[p] # idx[p]
Truncated(i) ==
    i \in DOMAIN data /\ i \in DOMAIN data' /\ Len(data'[i]) < Len(data[i])
C6_Step ==
    \A p \in AllCalls :
       ReActor(p) =>
          /\ \A path \in DOMAIN tmp :
                (\/ path \notin DOMAIN tmp'
                 \/ tmp'[path] # tmp[path]
                 \/ Truncated(tmp[path]))
                   => <<"tmp", path>> \in created[p]
          /\ \A path \in DOMAIN queue :
                (/\ path[1] # SrcQueue
                 /\ \/ path \notin DOMAIN queue'
                    \/ queue'[path] # queue[path]
                    \/ Truncated(queue[path]))
                   => <<"queue", path>> \in created[p]
C6_OwnFilesOnly == [][C6_Step]_vars

\* C7: calls of one process that return successfully without an entropy of
\* their own have pairwise distinct item identifiers, also within one tick
C7_DistinctIdentifiers ==
    \A p, q \in AllCalls :
       (/\ p # q
        /\ pc[p] = "returned" /\ pc[q] = "returned"
        /\ kw_entropy[p] = <<>> /\ kw_entropy[q] = <<>>)
          => Identifier(p) # Identifier(q)

\* two calls have returned in the same tick, telling their items apart by
\* the entropy field alone
C7_Witness ==
    \E p, q \in Calls :
       /\ p # q
       /\ pc[p] = "returned" /\ pc[q] = "returned"
       /\ kw_entropy[p] = <<>> /\ kw_entropy[q] = <<>>
       /\ Identifier(p)[1] = Identifier(q)[1]
       /\ Identifier(p)[2] # Identifier(q)[2]

\* C8: a call that has returned successfully read its source up to the
\* first empty read, and the item live under its identifier holds exactly
\* the bytes the source delivered, in order
C8_RoundTrip ==
    \A p \in AllCalls :
       pc[p] = "returned" =>
          LET path == Path(TrgQueue, Identifier(p))
          IN  /\ p \in eos
              /\ Exists(queue, path)
              /\ queue[path] \in DOMAIN data
              /\ data[queue[path]] = payload[p]

\* C9: a call that has returned successfully hands its caller the name its
\* item was staged under, and the item is live under that same name
C9_OneIdentifier ==
    \A p \in AllCalls :
       pc[p] = "returned" =>
          /\ retval[p] = item_name[p]
          /\ Identifier(p) = item_name[p]
          /\ Exists(queue, Path(TrgQueue, retval[p]))

\* C10: a rename-strategy call given an entropy of its own makes its first
\* exclusive create in the staging directory under a name with that entropy
C10_ExplicitEntropy ==
    \A p \in AllCalls :
       (pc[p] = "stage_open" /\ kw_entropy[p] # <<>>)
          => entropy[p] = kw_entropy[p][1] /\ tried[p] = 0


\* C11: a stage of a call whose caller gave the bound enqueue_tries = n > 0
\* makes at most n exclusive-create attempts: it never stands before a
\* further attempt with n attempts already made
C11_BoundedRetry ==
    \A p \in AllCalls :
       (pc[p] \in {"stage_open", "commit_open"} /\ venqueue_tries > 0)
          => tried[p] < venqueue_tries

\* the target queues of a vreenqueue call, and the live name of the item in
\* a queue
ReTargets(p) == { trg_queues[p][i] : i \in 1..Len(trg_queues[p]) }
ReItem(q) == Path(q, ItemId)

\* C12: after a vreenqueue call with link has returned, the live directory
\* of each of its target queues has the item under the source's identifier
\* as a hard link to the source's live file, and the source is in place
C12_LinkFanOut ==
    \A p \in AllCalls :
       (pc[p] = "returned" /\ link[p]) =>
          /\ Exists(queue, ReItem(SrcQueue)) /\ queue[ReItem(SrcQueue)] = SrcIno
          /\ \A q \in ReTargets(p) :
                Exists(queue, ReItem(q)) /\ queue[ReItem(q)] = SrcIno

\* C13: after a vreenqueue call without link has returned, the live item of
\* each of its target queues holds exactly the bytes of the source item
C13_CopyFanOut ==
    \A p \in AllCalls :
       (pc[p] = "returned" /\ ~link[p]) =>
          \A q \in ReTargets(p) :
             /\ Exists(queue, ReItem(q))
             /\ data[queue[ReItem(q)]] = Take(Stream, MaxLen)

\* C14: when the publishing of a vreenqueue call into a later target has
\* failed (the target has no live item) after its publishing into the first
\* target succeeded, a FSQReenqueueError is on its way to the caller
C14_PartialFailure ==
    \A p \in AllCalls :
       ( /\ pc[p] = "re_finally" /\ idx[p] > 1
         /\ <<"queue", ReItem(trg_queues[p][1])>> \in created[p]
         /\ ~Exists(queue, ReItem(ReQueue(p))) )
          => exc[p].cls = "FSQReenqueueError"

\* C15: a vreenqueue call that has returned normally has left the item live
\* in every target queue it was asked for
C15_NothingDropped ==
    \A p \in AllCalls :
       pc[p] = "returned" =>
          \A q \in ReTargets(p) : Exists(queue, ReItem(q))

\* C16: the exception a call has ended with is one of the domain errors
\* FSQEnqueueError, FSQReenqueueError and FSQMaxEnqueueTriesError, never a
\* raw OSError or IOError or another exception
DomainErrors == {"FSQEnqueueError", "FSQReenqueueError", "FSQMaxEnqueueTriesError"}
C16_DomainErrorsOnly ==
    \A p \in AllCalls : pc[p] = "raised" => exc[p].cls \in DomainErrors

\* the call has its return value of _mkentropy at hand
HasEntropy(p) ==
    variant = "link" /\ pc[p] \notin EntropyPcs \cup Terminal \cup {"idle"}

\* C17: when the _mkentropy calls come one after the other, the first call
\* returns 0, and every later call returns 0 if its (pid, now, host) differs
\* from that of the call before it and one more than that call's return
\* value if it is the same (pid and host are those of the one process)
C17_SequentialEntropy ==
    \A p \in AllCalls :
       HasEntropy(p) =>
          IF p = 1 THEN entropy[p] = 0
          ELSE HasEntropy(p - 1) =>
                  entropy[p] = IF now[p] = now[p - 1]
                               THEN entropy[p - 1] + 1 ELSE 0
\* three calls under way: the second and the third each counted on from the
\* call before it
C17_Witness ==
    /\ \A p \in AllCalls : HasEntropy(p)
    /\ now[1] = now[2] /\ now[2] = now[3]
    /\ entropy[2] = entropy[1] + 1 /\ entropy[3] = entropy[2] + 1

\* C18: two calls that gave _mkentropy the same (pid, now, host), however
\* their steps were interleaved, hold different return values
C18_ConcurrentEntropy ==
    \A p, o \in AllCalls :
       (p # o /\ HasEntropy(p) /\ HasEntropy(o) /\ now[p] = now[o])
          => entropy[p] # entropy[o]

C20_Step(p) ==
    (pc[p] \in {"except", "cleanup"} /\ pc'[p] # pc[p])
       => exc'[p].errno \in {exc[p].errno, "EIO"}
C20_CleanupPrecedence == [][\A p \in AllCalls : C20_Step(p)]_vars

\* C21: once a venqueue call has ended by raising an error to its caller,
\* no file created by that call has a name in the live directory
C21_FailureNotPublished ==
    \A p \in AllCalls :
       pc[p] = "raised" => \A i \in Range(queue) : Creator(i) # p

\* C22: a vreenqueue call that has given the item a name in the live
\* directory of any of its targets has before that completed the staging
\* (link, or open, write and fsync) for every one of its targets; so a call
\* whose staging failed for a target has published nothing
RePublished(p) == { q \in ReTargets(p) : <<"queue", ReItem(q)>> \in created[p] }
C22_TwoPhase ==
    \A p \in AllCalls : RePublished(p) # {} => staged[p] = ReTargets(p)
\* a call with two targets has published into the first of them
C22_Witness ==
    \E p \in AllCalls :
       /\ Len(trg_queues[p]) = 2
       /\ RePublished(p) = {trg_queues[p][1]}
       /\ staged[p] = ReTargets(p)

====
